---- MODULE Spec2Model ----
(***************************************************************************)
(* A model of goharproxy (src/harproxy.go): the capture pipeline of one    *)
(* HarProxy (round-trip wrapper -> entryChannel -> processEntriesFunc ->   *)
(* transform goroutines -> HarLog), its Start/Stop handshake, the drain-   *)
(* and-read of the log, the port registry of the proxy server, and the     *)
(* host rewrite table.                                                     *)
(*                                                                         *)
(* These specifications share the definitions below:                      *)
(*   Spec      one started HarProxy under traffic and a client that        *)
(*             drains and reads its log;                                   *)
(*   SpecStop  one started HarProxy under traffic and a caller of Stop;    *)
(*   SpecReg   the proxy server: concurrent control-plane handlers         *)
(*             (create, delete) over the registry portAndProxy;            *)
(*   SpecHosts AddHostEntries and replaceHost on one HarProxy;             *)
(*   SpecCapture  one started HarProxy under traffic, with the content     *)
(*             of each transaction: request, response, timestamps;         *)
(*   SpecFair, SpecStopFair  Spec and SpecStop with fair scheduling of     *)
(*             the goroutines.                                             *)
(***************************************************************************)
EXTENDS Integers, Sequences, FiniteSets, TLC

\* ------------------------------------------------------------------ bounds
MaxReq == 2        \* requests sent through the proxy under traffic
MaxReads == 2      \* drain-and-read calls (PUT /proxy/{port}/har)
MaxCalls == 3      \* control-plane calls (POST /proxy, DELETE /proxy/{port})
MaxPorts == 3      \* ports the operating system can hand out
MaxBatch == 2      \* rules in one POST /proxy/{port}/hosts (the bulk batches aside)
MaxAdds == 2       \* calls of AddHostEntries

\* ------------------------------------------------------- program constants
InitCap == 100     \* make([]ProxyHosts, 0, 100)

Reqs == 1..MaxReq
Calls == 1..MaxCalls
Ports == 1..MaxPorts
\* A HarProxy is named after the call that created it.
Insts == Calls

\* The HarProxy that the pipeline variables belong to.
Traffic == 1

VARIABLES
    \* --- lifecycle of each HarProxy (indexed by instance)
    listener,          \* StoppableListener: "none" | "open" | "closed"
    servePc,           \* goroutine of Start: "none" | "serving" | "closing" | "signal" | "exit"
    entryChannelClosed,\* close(proxy.entryChannel) has run
    \* --- the pipeline of the HarProxy under traffic
    reqPc,             \* request r: "new" | "rt" | "send" | "sent" | "panic" | "nilpanic"
    consPc,            \* processEntriesFunc: "recv" | "load" | "store" | "exit"
    consCur,           \* the transaction processEntriesFunc holds (0: none)
    consTmp,           \* entriesInProcess as read by "+= 1"
    entriesInProcess,  \* proxy.entriesInProcess
    taskPc,            \* transform goroutine of r: "none" | "lock" | "store" | "decload" | "decstore" | "done"
    taskSnap,          \* l.Entries as read by append in addEntry
    taskTmp,           \* entriesInProcess as read by "-= 1"
    logLock,           \* holder of the HarLog mutex (0: free)
    Entries,           \* proxy.HarLog.Entries: [isNil, items]
    rdPc,              \* getHarLog: "idle" | "wait" | "encode" | "clear1" | "clear2"
    rdCount,           \* drain-and-read calls begun
    rdPubStart,        \* transactions published when the running call began
    docs,              \* the documents returned so far
    stopPc,            \* the caller of Stop: "idle" | "wait" | "returned"
    \* --- the proxy server: registry and control-plane handlers
    portAndProxy,      \* the registry: port -> instance (0: no entry)
    Port,              \* proxy.Port of each instance (0: not bound)
    call,              \* call c: [kind, port, pc, proxy, status, raced]
    fatal,             \* the process has died (runtime fatal error, log.Fatal)
    \* --- the host rewrite table of one HarProxy
    hostEntries,       \* proxy.hostEntries: [arr, len]; Len(arr) is its capacity
    added,             \* every rule passed to AddHostEntries, in order
    adds,              \* calls of AddHostEntries so far
    lastHost,          \* req.URL.Host of the last request, before the rewrite
    lastOut,           \* req.URL.Host of the last request, after replaceHost
    \* --- what the capture pipeline records of each request
    captureContent,    \* the package's body-capture flag
    now,               \* the clock that time.Now() reads
    urls,              \* the url.URL objects on the heap: their Host
    reqAndResp,        \* the reqAndResp object that the hook of request r allocated
    roundTrip,         \* what happened on the wire for request r: [host, req, dest, resp, err, at]
    returned,          \* what the round-trip wrapper of r returned: [done, resp, err]
    loopVar,           \* the reqAndResp variables of processEntriesFunc's loop body
    harEntry           \* the HarEntry that the transform goroutine of r built

lifeVars == <<listener, servePc, entryChannelClosed>>
pipeVars == <<reqPc, consPc, consCur, consTmp, entriesInProcess, taskPc,
              taskSnap, taskTmp, logLock, Entries>>
readVars == <<rdPc, rdCount, rdPubStart, docs>>
regVars == <<portAndProxy, Port, call, fatal>>
hostVars == <<hostEntries, added, adds, lastHost, lastOut>>
capVars == <<captureContent, now, urls, reqAndResp, roundTrip, returned,
             loopVar, harEntry>>
vars == <<lifeVars, pipeVars, readVars, stopPc, regVars, hostVars, capVars>>

\* Transactions published on entryChannel so far.
Published == Cardinality({r \in Reqs : reqPc[r] = "sent"})

\* ------------------------------------------------- HarLog (not under src/)
\* makeNewEntries(): a new, empty, non-nil entry sequence.
makeNewEntries == [isNil |-> FALSE, items |-> <<>>]

\* newHarLog(): the log a new HarProxy starts with.
newHarLog == makeNewEntries

\* append(l.Entries, entry) on the sequence that addEntry read.
addEntry_append(snapshot, r) == [isNil |-> FALSE, items |-> Append(snapshot, r)]

\* len(proxy.entryChannel): the channel is made without a buffer.
entryChannel_len == 0

\* ------------------------------------------------ lifecycle: Start / Stop
\* http.Serve returns once the listener has been closed; the handlers of
\* connections it accepted earlier keep running.
Start_ServeReturns(i) ==
    /\ servePc[i] = "serving"
    /\ listener[i] = "closed"
    /\ servePc' = [servePc EXCEPT ![i] = "closing"]
    /\ UNCHANGED <<listener, entryChannelClosed>>

\* close(proxy.entryChannel), then the goroutine blocks in proxy.isDone <- true.
Start_CloseChannel(i) ==
    /\ servePc[i] = "closing"
    /\ entryChannelClosed' = [entryChannelClosed EXCEPT ![i] = TRUE]
    /\ servePc' = [servePc EXCEPT ![i] = "signal"]
    /\ UNCHANGED listener

\* Stop: StoppableListener.Add(1); StoppableListener.Close().
Stop_Close(i) ==
    /\ listener' = [listener EXCEPT ![i] = "closed"]
    /\ UNCHANGED <<servePc, entryChannelClosed>>

\* Stop with the receive from isDone left out: it returns at once.
Stop_RecvDone_NoWait(i) ==
    UNCHANGED <<listener, servePc, entryChannelClosed>>

\* Stop: <-proxy.isDone, the rendezvous with the goroutine of Start
\* (isDone is unbuffered), then StoppableListener.Done().
Stop_RecvDone(i) ==
    /\ servePc[i] = "signal"
    /\ servePc' = [servePc EXCEPT ![i] = "exit"]
    /\ UNCHANGED <<listener, entryChannelClosed>>

\* ------------------------------------------------------ capture pipeline
\* A connection is accepted by http.Serve and the OnRequest hook runs:
\* start timestamp, request snapshot, RoundTripper installed, handleRequest.
OnRequest(r) ==
    /\ reqPc[r] = "new"
    /\ IF r = 1 THEN TRUE ELSE reqPc[r - 1] # "new"  \* numbered as they arrive
    /\ listener[Traffic] = "open"
    /\ servePc[Traffic] = "serving"
    /\ reqPc' = [reqPc EXCEPT ![r] = "rt"]
    /\ UNCHANGED <<consPc, consCur, consTmp, entriesInProcess, taskPc,
                   taskSnap, taskTmp, logLock, Entries>>

\* The round-trip wrapper up to the send: end timestamp, DetailedRoundTrip,
\* response snapshot.
RoundTrip(r) ==
    /\ reqPc[r] = "rt"
    /\ reqPc' = [reqPc EXCEPT ![r] = "send"]
    /\ UNCHANGED <<consPc, consCur, consTmp, entriesInProcess, taskPc,
                   taskSnap, taskTmp, logLock, Entries>>

\* proxy.entryChannel <- *reqAndResp meets <-proxy.entryChannel of
\* processEntriesFunc: the channel is unbuffered.
Publish(r) ==
    /\ reqPc[r] = "send"
    /\ ~entryChannelClosed[Traffic]
    /\ consPc = "recv"
    /\ reqPc' = [reqPc EXCEPT ![r] = "sent"]
    /\ consCur' = r
    /\ consPc' = "load"
    /\ UNCHANGED <<consTmp, entriesInProcess, taskPc, taskSnap, taskTmp,
                   logLock, Entries>>

\* A send on the closed channel panics.
PublishOnClosed(r) ==
    /\ reqPc[r] = "send"
    /\ entryChannelClosed[Traffic]
    /\ reqPc' = [reqPc EXCEPT ![r] = "panic"]
    /\ UNCHANGED <<consPc, consCur, consTmp, entriesInProcess, taskPc,
                   taskSnap, taskTmp, logLock, Entries>>

\* processEntriesFunc without the break on !ok: the loop goes round again.
processEntriesFunc_Exit_NoBreak ==
    /\ consPc = "recv"
    /\ entryChannelClosed[Traffic]
    /\ consPc' = "recv"
    /\ UNCHANGED <<reqPc, consCur, consTmp, entriesInProcess, taskPc,
                   taskSnap, taskTmp, logLock, Entries>>

\* processEntriesFunc: the receive reports !ok on the closed channel.
processEntriesFunc_Exit ==
    /\ consPc = "recv"
    /\ entryChannelClosed[Traffic]
    /\ consPc' = "exit"
    /\ UNCHANGED <<reqPc, consCur, consTmp, entriesInProcess, taskPc,
                   taskSnap, taskTmp, logLock, Entries>>

\* proxy.entriesInProcess += 1 is an unsynchronised read ...
processEntriesFunc_IncLoad ==
    /\ consPc = "load"
    /\ consTmp' = entriesInProcess
    /\ consPc' = "store"
    /\ UNCHANGED <<reqPc, consCur, entriesInProcess, taskPc, taskSnap,
                   taskTmp, logLock, Entries>>

\* ... and write; then go func() starts the transform goroutine.
processEntriesFunc_IncStore ==
    /\ consPc = "store"
    /\ entriesInProcess' = consTmp + 1
    /\ taskPc' = [taskPc EXCEPT ![consCur] = "lock"]
    /\ consCur' = 0
    /\ consPc' = "recv"
    /\ UNCHANGED <<reqPc, consTmp, taskSnap, taskTmp, logLock, Entries>>

\* Transform goroutine: the entry is built; addEntry takes the log's mutex
\* and append reads l.Entries.
addEntry_Lock(r) ==
    /\ taskPc[r] = "lock"
    /\ logLock = 0
    /\ logLock' = r
    /\ taskSnap' = [taskSnap EXCEPT ![r] = Entries.items]
    /\ taskPc' = [taskPc EXCEPT ![r] = "store"]
    /\ UNCHANGED <<reqPc, consPc, consCur, consTmp, entriesInProcess,
                   taskTmp, Entries>>

\* addEntry: l.Entries = append(...), then the mutex is released.
addEntry_Unlock(r) ==
    /\ taskPc[r] = "store"
    /\ Entries' = addEntry_append(taskSnap[r], r)
    /\ taskSnap' = [taskSnap EXCEPT ![r] = <<>>]
    /\ logLock' = 0
    /\ taskPc' = [taskPc EXCEPT ![r] = "decload"]
    /\ UNCHANGED <<reqPc, consPc, consCur, consTmp, entriesInProcess, taskTmp>>

\* proxy.entriesInProcess -= 1 is an unsynchronised read ...
Transform_DecLoad(r) ==
    /\ taskPc[r] = "decload"
    /\ taskTmp' = [taskTmp EXCEPT ![r] = entriesInProcess]
    /\ taskPc' = [taskPc EXCEPT ![r] = "decstore"]
    /\ UNCHANGED <<reqPc, consPc, consCur, consTmp, entriesInProcess,
                   taskSnap, logLock, Entries>>

\* ... and write.
Transform_DecStore(r) ==
    /\ taskPc[r] = "decstore"
    /\ entriesInProcess' = taskTmp[r] - 1
    /\ taskTmp' = [taskTmp EXCEPT ![r] = 0]
    /\ taskPc' = [taskPc EXCEPT ![r] = "done"]
    /\ UNCHANGED <<reqPc, consPc, consCur, consTmp, taskSnap, logLock, Entries>>

\* ------------------------------------------------ drain-and-read the log
\* The loop condition of WaitForEntries; len() of the unbuffered
\* entryChannel is always 0.
WaitForEntries_Waits == entryChannel_len > 0 \/ entriesInProcess > 0

\* PUT /proxy/{port}/har arrives: getHarLog is entered.
getHarLog_Begin ==
    /\ rdPc = "idle"
    /\ rdCount < MaxReads
    /\ rdPc' = "wait"
    /\ rdCount' = rdCount + 1
    /\ rdPubStart' = Published
    /\ UNCHANGED docs

\* WaitForEntries returns when its loop condition is false.
WaitForEntries_Return ==
    /\ rdPc = "wait"
    /\ ~WaitForEntries_Waits
    /\ rdPc' = "encode"
    /\ UNCHANGED <<rdCount, rdPubStart, docs>>

\* json.NewEncoder(w).Encode(harProxy.HarLog): the document of the reply.
getHarLog_Encode ==
    /\ rdPc = "encode"
    /\ docs' = Append(docs, [items |-> Entries.items,
                             pubStart |-> rdPubStart,
                             pubEnd |-> Published])
    /\ rdPc' = "clear1"
    /\ UNCHANGED <<rdCount, rdPubStart>>

\* ClearEntries: proxy.HarLog.Entries = nil (no mutex held) ...
ClearEntries_Nil ==
    /\ rdPc = "clear1"
    /\ Entries' = [isNil |-> TRUE, items |-> <<>>]
    /\ rdPc' = "clear2"
    /\ UNCHANGED <<rdCount, rdPubStart, docs>>
    /\ UNCHANGED <<reqPc, consPc, consCur, consTmp, entriesInProcess, taskPc,
                   taskSnap, taskTmp, logLock>>

\* ... proxy.HarLog.Entries = makeNewEntries().
ClearEntries_New ==
    /\ rdPc = "clear2"
    /\ Entries' = makeNewEntries
    /\ rdPc' = "idle"
    /\ UNCHANGED <<rdCount, rdPubStart, docs>>
    /\ UNCHANGED <<reqPc, consPc, consCur, consTmp, entriesInProcess, taskPc,
                   taskSnap, taskTmp, logLock>>

\* -------------------------------------------- what a transaction records
\* The zero values: a nil *http.Request, a nil *http.Response, and what
\* new(reqAndResp) returns. A request holds a pointer into urls.
NoRequest == [id |-> 0, URL |-> 0, ContentLength |-> 0]

NoResponse == [id |-> 0, ContentLength |-> 0]

new_reqAndResp == [start |-> 0, end |-> 0, req |-> NoRequest, resp |-> NoResponse]

NoRoundTrip == [host |-> "", req |-> NoRequest, dest |-> "",
                resp |-> NoResponse, err |-> FALSE, at |-> 0]

NotReturned == [done |-> FALSE, resp |-> NoResponse, err |-> FALSE]

NoEntry == [built |-> FALSE, Request |-> [id |-> 0, host |-> ""],
            Response |-> 0, StartedDateTime |-> 0, Time |-> 0]

CapIdle ==
    /\ captureContent = FALSE
    /\ now = 1
    /\ urls = <<>>
    /\ reqAndResp = [r \in Reqs |-> new_reqAndResp]
    /\ roundTrip = [r \in Reqs |-> NoRoundTrip]
    /\ returned = [r \in Reqs |-> NotReturned]
    /\ loopVar = [r \in Reqs |-> new_reqAndResp]
    /\ harEntry = [r \in Reqs |-> NoEntry]

\* ------------------------------------------------------------ Spec
\* The idle values of the parts a specification does not exercise.
NoCall == [kind |-> "none", port |-> 0, pc |-> "idle", proxy |-> 0,
           status |-> "none", raced |-> FALSE]

RegIdle ==
    /\ portAndProxy = [p \in Ports |-> 0]
    /\ Port = [i \in Insts |-> 0]
    /\ call = [c \in Calls |-> NoCall]
    /\ fatal = FALSE

PipeIdle ==
    /\ reqPc = [r \in Reqs |-> "new"]
    /\ consPc = "recv"
    /\ consCur = 0
    /\ consTmp = 0
    /\ entriesInProcess = 0
    /\ taskPc = [r \in Reqs |-> "none"]
    /\ taskSnap = [r \in Reqs |-> <<>>]
    /\ taskTmp = [r \in Reqs |-> 0]
    /\ logLock = 0
    /\ Entries = newHarLog
    /\ rdPc = "idle"
    /\ rdCount = 0
    /\ rdPubStart = 0
    /\ docs = <<>>
    /\ stopPc = "idle"

HostsIdle ==
    /\ hostEntries = [arr |-> <<>>, len |-> 0]
    /\ added = <<>>
    /\ adds = 0
    /\ lastHost = ""
    /\ lastOut = ""

\* One HarProxy after NewHarProxy() and Start(): the listener is bound, the
\* serving goroutine and processEntriesFunc run, the log is empty.
Init ==
    /\ listener = [i \in Insts |-> IF i = Traffic THEN "open" ELSE "none"]
    /\ servePc = [i \in Insts |-> IF i = Traffic THEN "serving" ELSE "none"]
    /\ entryChannelClosed = [i \in Insts |-> FALSE]
    /\ PipeIdle
    /\ RegIdle
    /\ HostsIdle
    /\ CapIdle

\* A step of a request through the proxy or of the recording path.
Pipeline ==
    /\ \E r \in Reqs :
          \/ OnRequest(r)
          \/ RoundTrip(r)
          \/ Publish(r)
          \/ addEntry_Lock(r)
          \/ addEntry_Unlock(r)
          \/ Transform_DecLoad(r)
          \/ Transform_DecStore(r)
    /\ UNCHANGED <<lifeVars, readVars, stopPc, regVars, hostVars, capVars>>

Consumer ==
    /\ \/ processEntriesFunc_IncLoad
       \/ processEntriesFunc_IncStore
    /\ UNCHANGED <<lifeVars, readVars, stopPc, regVars, hostVars, capVars>>

\* What the closed entryChannel does to its sender and its receiver.
ClosedChannel ==
    /\ \/ \E r \in Reqs : PublishOnClosed(r)
       \/ processEntriesFunc_Exit
    /\ UNCHANGED <<lifeVars, readVars, stopPc, regVars, hostVars, capVars>>

\* A step of the client's PUT /proxy/{port}/har.
DrainRead ==
    \/ /\ \/ getHarLog_Begin
          \/ WaitForEntries_Return
          \/ getHarLog_Encode
       /\ UNCHANGED <<lifeVars, pipeVars, stopPc, regVars, hostVars, capVars>>
    \/ /\ \/ ClearEntries_Nil
          \/ ClearEntries_New
       /\ UNCHANGED <<lifeVars, stopPc, regVars, hostVars, capVars>>

\* A step of the caller of proxy.Stop().
Stop ==
    /\ \/ stopPc = "idle" /\ Stop_Close(Traffic) /\ stopPc' = "wait"
       \/ stopPc = "wait" /\ Stop_RecvDone(Traffic) /\ stopPc' = "returned"
    /\ UNCHANGED <<pipeVars, readVars, regVars, hostVars, capVars>>

\* A step of the goroutine that Start launched.
Serve ==
    /\ \/ Start_ServeReturns(Traffic)
       \/ Start_CloseChannel(Traffic)
    /\ UNCHANGED <<pipeVars, readVars, stopPc, regVars, hostVars, capVars>>

\* Spec: the HarProxy under traffic with a client that drains and reads
\* its log. Stop is left to SpecStop: getHarLog neither reads nor writes
\* what Start and Stop work on.
Next == Pipeline \/ Consumer \/ DrainRead

Spec == Init /\ [][Next]_vars

\* SpecFair: Spec with every goroutine scheduled whenever it can take a
\* step, as the Go scheduler does with a runnable goroutine: the handler
\* of a request from its round trip on, each transform goroutine,
\* processEntriesFunc, and the handler running getHarLog. The arrival of a
\* request or of a PUT is up to the clients.
HandlerStep(r) ==
    /\ RoundTrip(r) \/ Publish(r)
    /\ UNCHANGED <<lifeVars, readVars, stopPc, regVars, hostVars, capVars>>

TransformStep(r) ==
    /\ \/ addEntry_Lock(r)
       \/ addEntry_Unlock(r)
       \/ Transform_DecLoad(r)
       \/ Transform_DecStore(r)
    /\ UNCHANGED <<lifeVars, readVars, stopPc, regVars, hostVars, capVars>>

ReaderStep ==
    \/ /\ WaitForEntries_Return \/ getHarLog_Encode
       /\ UNCHANGED <<lifeVars, pipeVars, stopPc, regVars, hostVars, capVars>>
    \/ /\ ClearEntries_Nil \/ ClearEntries_New
       /\ UNCHANGED <<lifeVars, stopPc, regVars, hostVars, capVars>>

SpecFair ==
    /\ Spec
    /\ \A r \in Reqs : WF_vars(HandlerStep(r)) /\ WF_vars(TransformStep(r))
    /\ WF_vars(Consumer)
    /\ WF_vars(ReaderStep)

\* SpecStop: the HarProxy under traffic with a caller of Stop.
NextStop == Pipeline \/ Consumer \/ ClosedChannel \/ Stop \/ Serve

SpecStop == Init /\ [][NextStop]_vars

\* SpecStopFair: SpecStop with the goroutine of processEntriesFunc
\* scheduled whenever it can take a step, as the Go scheduler does with a
\* runnable goroutine.
ConsumerLoop ==
    /\ \/ processEntriesFunc_IncLoad
       \/ processEntriesFunc_IncStore
       \/ processEntriesFunc_Exit
    /\ UNCHANGED <<lifeVars, readVars, stopPc, regVars, hostVars, capVars>>

SpecStopFair == SpecStop /\ WF_vars(ConsumerLoop)

\* ------------------------------------------------- the proxy server
\* portAndProxy is a plain Go map shared by the handlers, which net/http
\* runs one goroutine each; no lock guards it. An access is an interval:
\* the handler enters it, and leaves it with the access's effect.
InMap(c) == call[c].pc \in {"get1r", "get2r", "del1r", "putw", "rmw"}

IsWrite(pc) == pc \in {"putw", "rmw"}

\* The position inside the access that starts at pc.
Inside(pc) ==
    CASE pc = "get1" -> "get1r"
      [] pc = "get2" -> "get2r"
      [] pc = "del1" -> "del1r"
      [] pc = "put" -> "putw"
      [] pc = "rm" -> "rmw"

\* Handler d is inside an access that races with an access of c (w: c writes).
Conflict(c, d, w) == d # c /\ InMap(d) /\ (w \/ IsWrite(call[d].pc))

\* No HarProxy listens on port p.
PortFree(p) == \A i \in Insts : ~(listener[i] = "open" /\ Port[i] = p)

\* POST /proxy: NewHarProxy(), then Start() binds a port the operating
\* system picks (port 0 was asked for), sets proxy.Port and launches the
\* serving goroutine; createNewHarProxy goes on to the registry.
createNewHarProxy_Start(c) ==
    /\ call[c].pc = "idle"
    /\ IF c = 1 THEN TRUE ELSE call[c - 1].pc # "idle"
    /\ \E p \in Ports :
          /\ PortFree(p)
          /\ listener' = [listener EXCEPT ![c] = "open"]
          /\ servePc' = [servePc EXCEPT ![c] = "serving"]
          /\ Port' = [Port EXCEPT ![c] = p]
          /\ call' = [call EXCEPT ![c] = [kind |-> "create", port |-> p,
                                         pc |-> "put", proxy |-> c,
                                         status |-> "none", raced |-> FALSE]]
    /\ UNCHANGED <<entryChannelClosed, portAndProxy, fatal>>

\* NewHarProxyWithPort(p), then Start(), with port p taken by a HarProxy
\* that is listening: net.Listen returns an error and log.Fatal("listen:",
\* err) writes it to the log and exits the process.
Start_ListenFails(c, p) ==
    /\ call[c].pc = "idle"
    /\ IF c = 1 THEN TRUE ELSE call[c - 1].pc # "idle"
    /\ ~PortFree(p)
    /\ call' = [call EXCEPT ![c] = [kind |-> "start", port |-> p,
                                   pc |-> "done", proxy |-> c,
                                   status |-> "listenfailed", raced |-> FALSE]]
    /\ fatal' = TRUE
    /\ UNCHANGED <<lifeVars, portAndProxy, Port>>

\* DELETE /proxy/{p} arrives: proxyHandler calls getProxyForPath.
proxyHandler_Delete(c, p) ==
    /\ call[c].pc = "idle"
    /\ IF c = 1 THEN TRUE ELSE call[c - 1].pc # "idle"
    /\ call' = [call EXCEPT ![c] = [kind |-> "delete", port |-> p,
                                   pc |-> "get1", proxy |-> 0,
                                   status |-> "none", raced |-> FALSE]]
    /\ UNCHANGED <<lifeVars, portAndProxy, Port, fatal>>

\* A handler enters an access to portAndProxy; it and every handler
\* inside a conflicting access are now in a data race.
portAndProxy_Enter(c) ==
    /\ call[c].pc \in {"get1", "get2", "del1", "put", "rm"}
    /\ LET w == IsWrite(Inside(call[c].pc)) IN
       call' = [d \in Calls |->
                  IF d = c
                    THEN [call[c] EXCEPT !.pc = Inside(call[c].pc),
                                         !.raced = \E e \in Calls : Conflict(c, e, w)]
                    ELSE IF Conflict(c, d, w)
                           THEN [call[d] EXCEPT !.raced = TRUE]
                           ELSE call[d]]
    /\ UNCHANGED <<lifeVars, portAndProxy, Port, fatal>>

\* A racing access may end in the runtime's fatal error ("concurrent map
\* writes", "concurrent map read and map write"): the process dies.
portAndProxy_Fatal(c) ==
    /\ InMap(c)
    /\ call[c].raced
    /\ fatal' = TRUE
    /\ UNCHANGED <<lifeVars, portAndProxy, Port, call>>

\* A racing write may be lost.
portAndProxy_LostWrite(c) ==
    /\ IsWrite(call[c].pc)
    /\ call[c].raced
    /\ call' = [call EXCEPT ![c].pc = "done", ![c].status = "ok", ![c].raced = FALSE]
    /\ UNCHANGED <<lifeVars, portAndProxy, Port, fatal>>

\* createNewHarProxy: portAndProxy[port] = harProxy, then the reply {port}.
createNewHarProxy_Register(c) ==
    /\ call[c].pc = "putw"
    /\ portAndProxy' = [portAndProxy EXCEPT ![call[c].port] = call[c].proxy]
    /\ call' = [call EXCEPT ![c].pc = "done", ![c].status = "ok", ![c].raced = FALSE]
    /\ UNCHANGED <<lifeVars, Port, fatal>>

\* getProxyForPath without its nil check.
getProxyForPath_Check_NoNilCheck(c) ==
    /\ call[c].pc = "get1r"
    /\ call' = [call EXCEPT ![c].pc = "get2", ![c].raced = FALSE]
    /\ UNCHANGED <<lifeVars, portAndProxy, Port, fatal>>

\* getProxyForPath: if portAndProxy[port] == nil, 404 "No proxy for port".
getProxyForPath_Check(c) ==
    /\ call[c].pc = "get1r"
    /\ IF portAndProxy[call[c].port] = 0
         THEN call' = [call EXCEPT ![c].pc = "done", ![c].status = "notfound",
                                   ![c].raced = FALSE]
         ELSE call' = [call EXCEPT ![c].pc = "get2", ![c].raced = FALSE]
    /\ UNCHANGED <<lifeVars, portAndProxy, Port, fatal>>

\* getProxyForPath: return portAndProxy[port], read a second time;
\* proxyHandler returns without a reply when it is nil, and otherwise
\* calls deleteHarProxy(harProxy.Port).
getProxyForPath_Return(c) ==
    /\ call[c].pc = "get2r"
    /\ LET h == portAndProxy[call[c].port] IN
       IF h = 0
         THEN call' = [call EXCEPT ![c].pc = "done", ![c].status = "empty",
                                   ![c].raced = FALSE]
         ELSE call' = [call EXCEPT ![c].pc = "del1", ![c].proxy = h,
                                   ![c].port = Port[h], ![c].raced = FALSE]
    /\ UNCHANGED <<lifeVars, portAndProxy, Port, fatal>>

\* deleteHarProxy: harProxy := portAndProxy[port]; harProxy.Stop() on a nil
\* harProxy panics in the handler.
deleteHarProxy_Lookup(c) ==
    /\ call[c].pc = "del1r"
    /\ LET h == portAndProxy[call[c].port] IN
       IF h = 0
         THEN call' = [call EXCEPT ![c].pc = "done", ![c].status = "panic",
                                   ![c].proxy = 0, ![c].raced = FALSE]
         ELSE call' = [call EXCEPT ![c].pc = "stop", ![c].proxy = h,
                                   ![c].raced = FALSE]
    /\ UNCHANGED <<lifeVars, portAndProxy, Port, fatal>>

\* deleteHarProxy: harProxy.Stop() up to the close of the listener.
deleteHarProxy_StopClose(c) ==
    /\ call[c].pc = "stop"
    /\ Stop_Close(call[c].proxy)
    /\ call' = [call EXCEPT ![c].pc = "wait"]
    /\ UNCHANGED <<portAndProxy, Port, fatal>>

\* deleteHarProxy: harProxy.Stop() returns after <-proxy.isDone.
deleteHarProxy_StopWait(c) ==
    /\ call[c].pc = "wait"
    /\ Stop_RecvDone(call[c].proxy)
    /\ call' = [call EXCEPT ![c].pc = "rm"]
    /\ UNCHANGED <<portAndProxy, Port, fatal>>

\* deleteHarProxy: delete(portAndProxy, port), then the reply.
deleteHarProxy_Remove(c) ==
    /\ call[c].pc = "rmw"
    /\ portAndProxy' = [portAndProxy EXCEPT ![call[c].port] = 0]
    /\ call' = [call EXCEPT ![c].pc = "done", ![c].status = "ok", ![c].raced = FALSE]
    /\ UNCHANGED <<lifeVars, Port, fatal>>

\* The proxy server after NewProxyServer: no HarProxy, an empty registry.
InitReg ==
    /\ listener = [i \in Insts |-> "none"]
    /\ servePc = [i \in Insts |-> "none"]
    /\ entryChannelClosed = [i \in Insts |-> FALSE]
    /\ PipeIdle
    /\ RegIdle
    /\ HostsIdle
    /\ CapIdle

\* A step of the handler of POST /proxy.
CreateCall ==
    /\ ~fatal
    /\ \E c \in Calls :
          \/ createNewHarProxy_Start(c)
          \/ createNewHarProxy_Register(c)
    /\ UNCHANGED <<pipeVars, readVars, stopPc, hostVars, capVars>>

\* A step of the handler of DELETE /proxy/{port}.
DeleteCall ==
    /\ ~fatal
    /\ \E c \in Calls :
          \/ \E p \in Ports : proxyHandler_Delete(c, p)
          \/ getProxyForPath_Check(c)
          \/ getProxyForPath_Return(c)
          \/ deleteHarProxy_Lookup(c)
          \/ deleteHarProxy_StopClose(c)
          \/ deleteHarProxy_StopWait(c)
          \/ deleteHarProxy_Remove(c)
    /\ UNCHANGED <<pipeVars, readVars, stopPc, hostVars, capVars>>

\* A handler enters the registry, or a racing access goes wrong.
MapAccess ==
    /\ ~fatal
    /\ \E c \in Calls :
          \/ portAndProxy_Enter(c)
          \/ portAndProxy_Fatal(c)
          \/ portAndProxy_LostWrite(c)
    /\ UNCHANGED <<pipeVars, readVars, stopPc, hostVars, capVars>>

\* A step of the serving goroutine of some HarProxy.
ServeAny ==
    /\ ~fatal
    /\ \E i \in Insts :
          \/ Start_ServeReturns(i)
          \/ Start_CloseChannel(i)
    /\ UNCHANGED <<pipeVars, readVars, stopPc, regVars, hostVars, capVars>>

\* A call of Start for a port that is in use.
StartCall ==
    /\ ~fatal
    /\ \E c \in Calls, p \in Ports : Start_ListenFails(c, p)
    /\ UNCHANGED <<pipeVars, readVars, stopPc, hostVars, capVars>>

NextReg == CreateCall \/ DeleteCall \/ MapAccess \/ ServeAny \/ StartCall

SpecReg == InitReg /\ [][NextReg]_vars

\* ------------------------------------------------- the host rewrite table
Hosts == {"a.test", "b.test", "c.test"}

\* The rules a POST /proxy/{port}/hosts may carry: two for one host, with
\* different replacements, and one for another host.
Rules == {[Host |-> "a.test", NewHost |-> "b.test"],
          [Host |-> "a.test", NewHost |-> "c.test"],
          [Host |-> "b.test", NewHost |-> "c.test"]}

\* The zero value of ProxyHosts, which make() fills a new array with.
ZeroRule == [Host |-> "", NewHost |-> ""]

\* make([]ProxyHosts, 0, 100): length 0 on an array of capacity InitCap.
NewHostEntries == [arr |-> [i \in 1..InitCap |-> ZeroRule], len |-> 0]

\* The batches AddHostEntries is called with: every list of 1..MaxBatch
\* different rules, and lists of InitCap equal rules, which fill the first
\* array.
SmallBatches ==
    {b \in UNION {[1..k -> Rules] : k \in 1..MaxBatch} :
        \A i, j \in DOMAIN b : i # j => b[i] # b[j]}

BulkBatches == {[i \in 1..InitCap |-> r] : r \in Rules}

\* AddHostEntries with copy(newEntries, entries) left out of the reallocation.
AddHostEntries_NoCopy(he, batch) ==
    LET m == he.len
        n == m + Len(batch)
        base == IF n > Len(he.arr)
                  THEN [i \in 1..((n + 1) * 2) |-> ZeroRule]
                  ELSE he.arr
    IN  [arr |-> [i \in 1..Len(base) |->
                    IF i > m /\ i <= n THEN batch[i - m] ELSE base[i]],
         len |-> n]

\* AddHostEntries: if n > cap(entries) a new array of (n+1)*2 elements gets
\* the m old ones copied in; entries[0:n]; the batch is copied to [m:n].
AddHostEntries(he, batch) ==
    LET m == he.len
        n == m + Len(batch)
        base == IF n > Len(he.arr)
                  THEN [i \in 1..((n + 1) * 2) |->
                          IF i <= m THEN he.arr[i] ELSE ZeroRule]
                  ELSE he.arr
    IN  [arr |-> [i \in 1..Len(base) |->
                    IF i > m /\ i <= n THEN batch[i - m] ELSE base[i]],
         len |-> n]

\* replaceHost: the range loop from element i on; the first rule whose
\* Host equals the request's host sets the host to NewHost and returns.
RECURSIVE replaceHost_from(_, _, _)
replaceHost_from(he, host, i) ==
    IF i > he.len
      THEN host
      ELSE IF host = he.arr[i].Host
             THEN he.arr[i].NewHost
             ELSE replaceHost_from(he, host, i + 1)

replaceHost(he, host) == replaceHost_from(he, host, 1)

\* POST /proxy/{port}/hosts: addHostEntries decodes the rules and calls
\* proxy.AddHostEntries.
addHostEntries ==
    \E batch \in SmallBatches \cup
                    (IF hostEntries.len < InitCap THEN BulkBatches ELSE {}) :
        /\ adds < MaxAdds
        /\ adds' = adds + 1
        /\ hostEntries' = AddHostEntries(hostEntries, batch)
        /\ added' = added \o batch
        /\ UNCHANGED <<lastHost, lastOut>>

\* A request for host h passes handleRequest.
handleRequest ==
    \E h \in Hosts :
        /\ lastHost' = h
        /\ lastOut' = replaceHost(hostEntries, h)
        /\ UNCHANGED <<hostEntries, added, adds>>

\* A new HarProxy: an empty rule list of capacity InitCap.
InitHosts ==
    /\ listener = [i \in Insts |-> "none"]
    /\ servePc = [i \in Insts |-> "none"]
    /\ entryChannelClosed = [i \in Insts |-> FALSE]
    /\ PipeIdle
    /\ RegIdle
    /\ hostEntries = NewHostEntries
    /\ added = <<>>
    /\ adds = 0
    /\ lastHost = ""
    /\ lastOut = ""
    /\ CapIdle

NextHosts ==
    /\ addHostEntries \/ handleRequest
    /\ UNCHANGED <<lifeVars, pipeVars, readVars, stopPc, regVars, capVars>>

SpecHosts == InitHosts /\ [][NextHosts]_vars

\* ------------------------------------------- the capture of a transaction
\* The rules of the HarProxy under traffic in SpecCapture.
CaptureRules == <<[Host |-> "a.test", NewHost |-> "b.test"],
                  [Host |-> "b.test", NewHost |-> "c.test"]>>

\* req.ContentLength of the requests under traffic: they have a body
\* (without one, the request snapshot is taken as it is when captureContent
\* is off).
ContentLengths == {1}

\* The host that clients ask for: the first rule rewrites it, to the host
\* of the second rule.
RequestHosts == {"a.test"}

\* copyReq with a url.URL of its own for the copy.
copyReq_CloneURL(heap, req) ==
    [urls |-> Append(heap, heap[req.URL]), req |-> req,
     reqCopy |-> [req EXCEPT !.URL = Len(heap) + 1]]

\* copyReq: *reqCopy = *req copies the fields of the struct, the pointer
\* URL among them; copyReadCloser gives each of the two its own body.
copyReq(heap, req) == [urls |-> heap, req |-> req, reqCopy |-> req]

\* copyResp: the same for the response.
copyResp(resp) == [resp |-> resp, respCopy |-> resp]

\* What tr.DetailedRoundTrip(req) can return for request r: an error and no
\* response, or the response to r (with a body: without one, the response
\* snapshot is taken as it is when captureContent is off).
RoundTripResults(r) ==
    {[resp |-> NoResponse, err |-> TRUE],
     [resp |-> [id |-> r, ContentLength |-> 1], err |-> FALSE]}

\* The OnRequest hook of request r, for host h with content length n:
\* new(reqAndResp), start, the request snapshot, then handleRequest, whose
\* replaceHost writes req.URL.Host.
OnRequest_Record(r) ==
    \E h \in RequestHosts, n \in ContentLengths :
        LET heap == Append(urls, h)
            req == [id |-> r, URL |-> Len(heap), ContentLength |-> n]
            c == IF captureContent /\ req.ContentLength > 0
                   THEN copyReq(heap, req)
                   ELSE [urls |-> heap, req |-> req, reqCopy |-> req]
        IN  /\ reqAndResp' = [reqAndResp EXCEPT ![r] =
                  [new_reqAndResp EXCEPT !.start = now, !.req = c.reqCopy]]
            /\ urls' = [c.urls EXCEPT ![c.req.URL] = replaceHost(hostEntries, @)]
            /\ roundTrip' = [roundTrip EXCEPT ![r].host = h, ![r].req = c.req]
            /\ UNCHANGED <<captureContent, now, returned, loopVar, harEntry>>

\* The round-trip wrapper of request r up to the send: reqAndResp.end =
\* time.Now(), then tr.DetailedRoundTrip(req), which takes time, then
\* captureContent && resp.ContentLength > 0, which dereferences resp.
RoundTrip_Record(r) ==
    \E res \in RoundTripResults(r) :
        /\ reqPc[r] = "rt"
        /\ now' = now + 1
        /\ roundTrip' = [roundTrip EXCEPT
                            ![r].dest = urls[roundTrip[r].req.URL],
                            ![r].resp = res.resp,
                            ![r].err = res.err,
                            ![r].at = now + 1]
        /\ IF captureContent /\ res.resp = NoResponse
             THEN \* nil pointer dereference: the handler's goroutine panics
                  /\ reqPc' = [reqPc EXCEPT ![r] = "nilpanic"]
                  /\ reqAndResp' = [reqAndResp EXCEPT ![r].end = now]
                  /\ UNCHANGED <<consPc, consCur, consTmp, entriesInProcess,
                                 taskPc, taskSnap, taskTmp, logLock, Entries>>
                  /\ UNCHANGED returned
             ELSE /\ RoundTrip(r)
                  /\ reqAndResp' = [reqAndResp EXCEPT
                        ![r].end = now,
                        ![r].resp = IF captureContent /\ res.resp.ContentLength > 0
                                      THEN copyResp(res.resp).respCopy
                                      ELSE res.resp]
                  /\ returned' = [returned EXCEPT ![r].resp = res.resp,
                                                  ![r].err = res.err]
        /\ UNCHANGED <<captureContent, urls, loopVar, harEntry>>

\* The variable reqAndResp of the loop body of processEntriesFunc that the
\* closure of the transform goroutine captures, were the loop to share one
\* variable among its iterations.
processEntriesFunc_Var_Shared(r) == 1

\* reqAndResp, ok := <-proxy.entryChannel declares the variable in the
\* loop body: the iteration that receives transaction r has its own.
processEntriesFunc_Var(r) == r

\* proxy.entryChannel <- *reqAndResp hands a copy of the object to the
\* receiving iteration; then return resp, err.
Publish_Record(r) ==
    /\ loopVar' = [loopVar EXCEPT ![processEntriesFunc_Var(r)] = reqAndResp[r]]
    /\ returned' = [returned EXCEPT ![r].done = TRUE]
    /\ UNCHANGED <<captureContent, now, urls, reqAndResp, roundTrip, harEntry>>

\* parseRequest, parseResponse (not under src/): the entry's request has
\* the URL of the request at the time it is parsed.
parseRequest(req) == [id |-> req.id, host |-> urls[req.URL]]

parseResponse(resp) == resp.id

\* The transform goroutine builds the HarEntry from the variable its
\* closure captured, before addEntry.
Transform_Build(r) ==
    LET v == loopVar[processEntriesFunc_Var(r)]
    IN  /\ harEntry' = [harEntry EXCEPT ![r] =
              [built |-> TRUE,
               Request |-> parseRequest(v.req),
               StartedDateTime |-> v.start,
               Response |-> parseResponse(v.resp),
               Time |-> v.end - v.start]]
        /\ UNCHANGED <<captureContent, now, urls, reqAndResp, roundTrip,
                       returned, loopVar>>

\* One HarProxy with CaptureRules, started; body capture on or off.
InitCapture ==
    /\ listener = [i \in Insts |-> IF i = Traffic THEN "open" ELSE "none"]
    /\ servePc = [i \in Insts |-> IF i = Traffic THEN "serving" ELSE "none"]
    /\ entryChannelClosed = [i \in Insts |-> FALSE]
    /\ PipeIdle
    /\ RegIdle
    /\ hostEntries = AddHostEntries(NewHostEntries, CaptureRules)
    /\ added = CaptureRules
    /\ adds = 1
    /\ lastHost = ""
    /\ lastOut = ""
    /\ captureContent \in BOOLEAN
    /\ now = 1
    /\ urls = <<>>
    /\ reqAndResp = [r \in Reqs |-> new_reqAndResp]
    /\ roundTrip = [r \in Reqs |-> NoRoundTrip]
    /\ returned = [r \in Reqs |-> NotReturned]
    /\ loopVar = [r \in Reqs |-> new_reqAndResp]
    /\ harEntry = [r \in Reqs |-> NoEntry]

\* A step of a request through the hook and the round-trip wrapper.
CaptureRequest ==
    /\ \E r \in Reqs :
          \/ OnRequest(r) /\ OnRequest_Record(r)
          \/ RoundTrip_Record(r)
          \/ Publish(r) /\ Publish_Record(r)
    /\ UNCHANGED <<lifeVars, readVars, stopPc, regVars, hostVars>>

\* A step of a transform goroutine.
CaptureTransform ==
    /\ \E r \in Reqs :
          \/ addEntry_Lock(r) /\ Transform_Build(r)
          \/ addEntry_Unlock(r) /\ UNCHANGED capVars
          \/ Transform_DecLoad(r) /\ UNCHANGED capVars
          \/ Transform_DecStore(r) /\ UNCHANGED capVars
    /\ UNCHANGED <<lifeVars, readVars, stopPc, regVars, hostVars>>

\* SpecCapture: the HarProxy under traffic, with what each transaction
\* records.
NextCapture == CaptureRequest \/ CaptureTransform \/ Consumer

SpecCapture == InitCapture /\ [][NextCapture]_vars

\* ================================================================ claims
\* C1: if N transactions have been published on the capture channel and no
\* reset has happened, then at the moment WaitForEntries returns the log
\* holds exactly N entries. (Spec; the first drain-and-read has no reset
\* before it.)
C1_DrainedLogComplete ==
    [][(rdPc = "wait" /\ rdPc' = "encode" /\ rdCount = 1)
          => Len(Entries.items) = Published]_vars

\* C2: no round-trip wrapper ever sends on the closed capture channel, also
\* for requests accepted before Stop and still in flight when the listener
\* is closed. (SpecStop)
C2_NoSendOnClosedChannel ==
    \A r \in Reqs : reqPc[r] # "panic"

\* C3: Stop returns only after http.Serve has returned and, after that, the
\* capture channel has been closed: when Stop has returned the goroutine of
\* Start is past its send on isDone and the channel is closed, and the
\* channel is never closed while http.Serve is still running. (SpecStop)
C3_StopReturnsAfterBothPhases ==
    /\ stopPc = "returned" =>
          /\ listener[Traffic] = "closed"
          /\ servePc[Traffic] = "exit"
          /\ entryChannelClosed[Traffic]
    /\ entryChannelClosed[Traffic] => servePc[Traffic] \in {"signal", "exit"}

\* Stop has returned to its caller.
C3_StopReturned ==
    stopPc = "returned"

\* C4: a drain-and-read followed by a second one, with no transaction
\* published from the start of the first to the reply of the second,
\* returns zero entries the second time. (Spec)
C4_SecondReadEmpty ==
    \A k \in 1..(Len(docs) - 1) :
        docs[k + 1].pubEnd = docs[k].pubStart => docs[k + 1].items = <<>>

\* C5: a reset replaces the entry sequence in one atomic step: no append
\* meets the log in an intermediate state (a nil sequence) between the old
\* sequence and the new empty one. (Spec)
C5_ResetIsAtomic ==
    ~(Entries.isNil /\ logLock = 0 /\ \E r \in Reqs : taskPc[r] = "lock")

\* The handlers of POST /proxy that have replied.
Created == {c \in Calls : call[c].kind = "create" /\ call[c].pc = "done"}

\* C6: K concurrent creations yield K distinct ports, and once all K Create
\* calls have returned (no Delete having been issued) the registry maps
\* each returned port to the instance that bound it. (SpecReg)
C6_CreatedPortsRegistered ==
    (\A c \in Calls : call[c].kind = "none" \/
                        (call[c].kind = "create" /\ call[c].pc = "done")) =>
        \A c, d \in Created :
            /\ c # d => call[c].port # call[d].port
            /\ call[c].port = Port[c]
            /\ portAndProxy[call[c].port] = c

\* C7: the registry is guarded by a mutual-exclusion boundary: an insert by
\* Create or a removal by Delete never overlaps another handler's read or
\* write of the registry map. (SpecReg)
C7_RegistryMutualExclusion ==
    \A c, d \in Calls :
        (c # d /\ InMap(c) /\ InMap(d)) =>
            ~(IsWrite(call[c].pc) \/ IsWrite(call[d].pc))

\* C8: every instance present in the registry is Created or Running: its
\* listener has not been closed. (SpecReg)
C8_RegisteredAreRunning ==
    \A p \in Ports :
        portAndProxy[p] # 0 => listener[portAndProxy[p]] = "open"

\* C9: a Delete whose lookup finds no entry for the port (unknown, or
\* removed by an earlier Delete) replies NotFound and ends there: no panic,
\* no fatal error, the registry and every instance unchanged. The lookups
\* covered are those that do not race with a registry write. (SpecReg)
C9_UnknownPortNotFound ==
    [][\A c \in Calls :
          (/\ call[c].kind = "delete"
           /\ call[c].pc = "get1r"
           /\ call'[c].pc # "get1r"
           /\ ~call[c].raced
           /\ portAndProxy[call[c].port] = 0)
          => (/\ call'[c].pc = "done"
              /\ call'[c].status = "notfound"
              /\ portAndProxy' = portAndProxy
              /\ Port' = Port
              /\ lifeVars' = lifeVars
              /\ ~fatal')]_vars

\* A repeated Delete: one Delete of a port has succeeded and a later Delete
\* of the same port has been answered NotFound, with no race on the way.
C9_RepeatedDeleteNotFound ==
    \E c, d \in Calls :
        /\ c < d
        /\ call[c].kind = "delete" /\ call[c].pc = "done" /\ call[c].status = "ok"
        /\ call[d].kind = "delete" /\ call[d].pc = "done" /\ call[d].status = "notfound"
        /\ call[c].port = call[d].port
        /\ ~fatal

\* The rule list as specified: the rules in the order they were added.
Matches(rules, h) == \E i \in 1..Len(rules) : rules[i].Host = h

FirstMatch(rules, h) ==
    IF Matches(rules, h)
      THEN LET i == CHOOSE j \in 1..Len(rules) :
                        /\ rules[j].Host = h
                        /\ \A k \in 1..(j - 1) : rules[k].Host # h
           IN  rules[i].NewHost
      ELSE h

\* C10: host rewrite is first-match-wins over the rules in insertion order,
\* also after the list has grown past its initial capacity: a host matched
\* by some rule is rewritten to the replacement of the earliest-added such
\* rule, an unmatched host is left unchanged, and adding rules never
\* changes the result for a host that an earlier rule matches. (SpecHosts)
C10_FirstMatchWins ==
    /\ [](\A h \in Hosts : replaceHost(hostEntries, h) = FirstMatch(added, h))
    /\ [][/\ \A h \in Hosts :
                Matches(added, h) =>
                    replaceHost(hostEntries', h) = replaceHost(hostEntries, h)
          /\ <<lastHost, lastOut>>' # <<lastHost, lastOut>> =>
                lastOut' = FirstMatch(added, lastHost')]_vars

\* The list has grown past its initial capacity, two rules match the last
\* request's host, the later one with another replacement, and the request
\* was rewritten to the earlier rule's replacement.
C10_RewrittenAfterGrowth ==
    /\ Len(hostEntries.arr) > InitCap
    /\ \E i, j \in 1..Len(added) :
          /\ i < j
          /\ added[i].Host = lastHost
          /\ added[j].Host = lastHost
          /\ added[i].NewHost # added[j].NewHost
          /\ \A k \in 1..(i - 1) : added[k].Host # lastHost
          /\ lastOut = added[i].NewHost

\* C11: the URL recorded in a log entry is the rewritten destination: the
\* entry of a request whose host matches a rule has the replacement host of
\* the first such rule, which is the host the request was sent to, when the
\* snapshot is the request itself (captureContent off) and when copyReq
\* made a copy of the request before handleRequest ran. (SpecCapture)
C11_RecordedURLRewritten ==
    \A r \in Reqs :
        (harEntry[r].built /\ Matches(added, roundTrip[r].host)) =>
            /\ harEntry[r].Request.host = FirstMatch(added, roundTrip[r].host)
            /\ harEntry[r].Request.host = roundTrip[r].dest

\* Body capture is on, the request had a body, so that its snapshot is the
\* copy made by copyReq, and the entry built from the copy has the
\* replacement host.
C11_CopiedRequestRewritten ==
    \E r \in Reqs :
        /\ captureContent
        /\ reqAndResp[r].req.ContentLength > 0
        /\ roundTrip[r].host = "a.test"
        /\ harEntry[r].built
        /\ harEntry[r].Request.host = "b.test"

\* C12: request and response are correlated under every interleaving: the
\* transaction published for request r holds request r and what the
\* transport returned for r, and the entry built by the transform goroutine
\* of that transaction has the request, the response and the timestamps of
\* that one transaction. (SpecCapture)
C12_TransactionCorrelated ==
    \A r \in Reqs :
        /\ reqPc[r] = "sent" =>
              /\ reqAndResp[r].req.id = r
              /\ roundTrip[r].req.id = r
              /\ reqAndResp[r].resp = roundTrip[r].resp
        /\ harEntry[r].built =>
              /\ harEntry[r].Request.id = r
              /\ harEntry[r].Response = parseResponse(roundTrip[r].resp)
              /\ harEntry[r].StartedDateTime = reqAndResp[r].start
              /\ harEntry[r].Time = reqAndResp[r].end - reqAndResp[r].start

\* Two requests were in their round trips at the same time, the later one
\* got its response first, and the entries of both have been built.
C12_OverlappingTransactionsBuilt ==
    \E r, q \in Reqs :
        /\ r < q
        /\ harEntry[r].built /\ harEntry[q].built
        /\ ~roundTrip[r].err /\ ~roundTrip[q].err
        /\ reqAndResp[q].start <= reqAndResp[r].end
        /\ roundTrip[q].at < roundTrip[r].at

\* C13: once the round trip of a request has returned, the start timestamp
\* of its transaction is not later than its end timestamp, and the end
\* timestamp is not earlier than the moment the round trip returned.
\* (SpecCapture)
C13_EndNotBeforeRoundTripReturns ==
    \A r \in Reqs :
        roundTrip[r].at > 0 =>
            /\ reqAndResp[r].start <= reqAndResp[r].end
            /\ reqAndResp[r].end >= roundTrip[r].at

\* C15: a round trip that ends in an error, with no response, still gets
\* its transaction published and its error returned: the wrapper goes on to
\* the send, and when it has sent it has returned the error, with body
\* capture on or off. (SpecCapture)
C15_ErrorStillPublished ==
    \A r \in Reqs :
        roundTrip[r].err =>
            /\ reqPc[r] \in {"send", "sent"}
            /\ reqPc[r] = "sent" => (returned[r].done /\ returned[r].err)

\* C14: a bind failure is fatal only to the call of Start that met it: after
\* a Start whose port was unavailable the process is alive, so that the
\* caller gets the error and the instances that were listening still
\* serve. (SpecReg)
C14_BindFailureIsLocal ==
    \A c \in Calls : call[c].status = "listenfailed" => ~fatal

\* C16: once the capture channel has been closed, processEntriesFunc
\* eventually exits its loop; when it has exited, every transaction it
\* received has had its transform goroutine started; and no transaction is
\* received after the close. (SpecStopFair)
C16_ConsumerLoopTerminates ==
    /\ entryChannelClosed[Traffic] ~> (consPc = "exit")
    /\ [](consPc = "exit" =>
            \A r \in Reqs : reqPc[r] = "sent" => taskPc[r] # "none")
    /\ [][entryChannelClosed[Traffic] =>
            \A r \in Reqs : reqPc'[r] = "sent" => reqPc[r] = "sent"]_vars

\* The loop has exited after the close, having received a transaction and
\* started its transform goroutine, while another request met the closed
\* channel.
C16_ExitedAfterDispatch ==
    /\ entryChannelClosed[Traffic]
    /\ consPc = "exit"
    /\ \E r, q \in Reqs :
          /\ reqPc[r] = "sent" /\ taskPc[r] # "none"
          /\ reqPc[q] = "panic"

\* The transform goroutines that processEntriesFunc has counted and that
\* have not finished.
Outstanding == {r \in Reqs : taskPc[r] \in {"lock", "store", "decload", "decstore"}}

\* C17: entriesInProcess is never negative; it is zero whenever
\* processEntriesFunc is between iterations and no transform goroutine is
\* outstanding; and whenever no += 1 or -= 1 is between its read and its
\* write, it is the number of outstanding transform goroutines that have
\* not yet begun their -= 1. (Spec)
C17_CounterMatchesOutstanding ==
    /\ entriesInProcess >= 0
    /\ (consPc = "recv" /\ Outstanding = {}) => entriesInProcess = 0
    /\ (consPc # "store" /\ \A r \in Reqs : taskPc[r] # "decstore") =>
          entriesInProcess =
              Cardinality({r \in Reqs : taskPc[r] \in {"lock", "store", "decload"}})

\* C18: the drain completes: with every goroutine scheduled fairly and the
\* number of requests bounded, every call of WaitForEntries eventually
\* returns. (SpecFair)
C18_DrainCompletes == (rdPc = "wait") ~> (rdPc = "encode")

\* C19: no Delete call is left waiting in Stop for the isDone of an
\* instance whose serving goroutine has already handed over its one signal
\* and exited: nothing will ever send on that channel again. (SpecReg)
C19_NoDeleteBlockedOnIsDone ==
    \A c \in Calls :
        (call[c].kind = "delete" /\ call[c].pc = "wait") =>
            servePc[call[c].proxy] # "exit"

\* The entries of a sequence, as a set.
EntrySet(items) == {items[i] : i \in DOMAIN items}

\* C20: no entry is lost by a drain-and-read: an entry that has been
\* appended to the log is in the log or in a document that a drain-and-read
\* returned, and in at most one such document. (Spec)
C20_NoEntryLost ==
    \A r \in Reqs :
        taskPc[r] \in {"decload", "decstore", "done"} =>
            /\ \/ r \in EntrySet(Entries.items)
               \/ \E i \in DOMAIN docs : r \in EntrySet(docs[i].items)
            /\ \A i, j \in DOMAIN docs :
                  (r \in EntrySet(docs[i].items) /\ r \in EntrySet(docs[j].items))
                      => i = j
====
